---- MODULE Spec2Model ----
(***************************************************************************)
(* Model of the Distributed Project Summarizer cluster: Bully leader       *)
(* election (leader_election.py), peer liveness (node.py, heartbeat.py)    *)
(* and the leader-side task scheduler (task_manager.py, main.py).          *)
(*                                                                         *)
(* Peer RPCs are blocking HTTP calls: the receiving handler runs to        *)
(* completion inside the sender's call, so a delivery is one step of the   *)
(* sender that also applies the handler at the receiver.                   *)
(*                                                                         *)
(* Time is abstracted: alive_nodes[n] holds the peers whose last_seen is   *)
(* within leader_timeout (a stale entry and a missing entry read the same  *)
(* in is_node_alive and get_alive_nodes); Expire makes an entry stale.     *)
(* Heartbeats are sent every heartbeat_interval < leader_timeout, so the   *)
(* entry of a peer that is running does not go stale once it is written.   *)
(* An entry is compared with the clock only when it is read, so only the   *)
(* entries that some thread of the node reads are tracked (WillBeRead).    *)
(***************************************************************************)
EXTENDS Integers, Sequences, FiniteSets, TLC

\* ---------------------------------------------------------------- bounds
\* election worker threads that may coexist on one node
MaxElectionThreads == 2
\* crashes the environment may inject
MaxCrashes == 1
\* jobs the clients submit
MaxTasks == 1
\* clock values of the liveness table followed in time
MaxClock == 5
\* config['network']['leader_timeout'], in clock ticks
leader_timeout == 2

\* ------------------------------------------------------- configuration
\* config['nodes']: the static membership, ids in list order
Nodes == {1, 2, 3}

\* leader_id = None
NoLeader == 0

\* config['tasks']['max_retries']
max_retries == 3
\* _get_available_workers: "Max 3 tasks per worker"
MaxWorkerLoad == 3
\* create_task: the three steps summarization, structuring, pdf_generation
NumSteps == 3

TaskIds == 1..MaxTasks
Steps == 1..NumSteps

\* outcomes of the POST /execute_task in _assign_task_to_worker
Replies == {"completed", "failed", "http_error", "conn_error", "timeout"}

VARIABLES
    all_nodes,            \* Node.all_nodes: the ids of config['nodes']
    status,               \* "off": not started; "init": constructed, HTTP server
                          \* not listening yet; "up": serving; "stopping":
                          \* shutdown_event has run; "down": the process is gone
    is_leader,            \* Node.is_leader
    leader_id,            \* Node.leader_id (NoLeader = None)
    alive_nodes,          \* Node.alive_nodes: ids whose last_seen is fresh
    election_in_progress, \* LeaderElection.election_in_progress
    election_id,          \* LeaderElection.election_id: 0 = None, n = a uuid drawn by n
    ethreads,             \* the _run_election threads of each node
    monitor,              \* position of the _monitor_leader thread
    processing,           \* TaskManager.processing_thread is alive
    tasks,                \* the task dicts, by task id
    pending,              \* TaskManager.pending_tasks (FIFO of task ids)
    in_progress,          \* TaskManager.in_progress_tasks
    completed,            \* TaskManager.completed_tasks
    failed,               \* TaskManager.failed_tasks
    sweep,                \* the _assign_tasks call holding TaskManager.lock
    background,           \* process_pending_tasks calls queued by submit_task
    accepted_by,          \* history: the node whose create_task made the task
    received_by,          \* history: the node the client posted the task to
    step_failures,        \* history: failed dispatches of each step of a task
    failure_cause,        \* history: "worker_crash" while a worker crashed
                          \* with a step of the task assigned to it and
                          \* every failed dispatch went to a dead worker,
                          \* "other" after any other failed dispatch
    pruned,               \* history: tasks removed by _cleanup_completed_tasks
    now,                  \* time.time(), in ticks
    last_seen,            \* Node.alive_nodes of TableNode as the dict it is:
                          \* node id -> time.time() of the last write
    last_heartbeat        \* Node.last_heartbeat of TableNode

nodeVars == <<is_leader, leader_id, alive_nodes>>
electionVars == <<election_in_progress, election_id, ethreads, monitor>>
envVars == <<status, all_nodes>>
clockVars == <<now, last_seen, last_heartbeat>>
taskVars == <<tasks, pending, in_progress, completed, failed, sweep,
              background, accepted_by, received_by, step_failures, failure_cause, pruned>>
vars == <<all_nodes, status, is_leader, leader_id, alive_nodes,
          election_in_progress, election_id, ethreads, monitor, processing,
          tasks, pending, in_progress, completed, failed, sweep,
          background, accepted_by, received_by, step_failures, failure_cause, pruned,
          now, last_seen, last_heartbeat>>

Slots == 1..MaxElectionThreads

\* the process of node n exists (its threads run)
Running(n) == status[n] \in {"init", "up"}

\* the process of node n exists: the threads that test no running flag
\* (_run_election, _process_tasks with TaskManager.running) still run after
\* shutdown_event has stopped the heartbeat and monitor loops
ProcessExists(n) == Running(n) \/ status[n] = "stopping"

Min(S) == CHOOSE x \in S : \A y \in S : x <= y

Idle == [pc |-> "idle", todo |-> {}, got |-> FALSE]

\* Node.get_higher_nodes
get_higher_nodes(n) == {m \in all_nodes : m > n}

\* Node.is_node_alive
is_node_alive(n, m) == m \in alive_nodes[n]

\* the node whose liveness table is also followed with its timestamps
TableNode == Min(Nodes)

\* an is_node_alive that drops the entry at the timeout itself
is_node_alive_at_strict(d, m, t) ==
    /\ m \in DOMAIN d
    /\ t - d[m] < leader_timeout

\* Node.is_node_alive, lines 106-114, on the dict d at the clock value t
is_node_alive_at(d, m, t) ==
    /\ m \in DOMAIN d
    /\ t - d[m] <= leader_timeout

\* Node.get_alive_nodes, lines 61-73: the dict after the dead entries
\* (current_time - last_seen > timeout) were deleted
remove_dead_nodes(d, t) ==
    [m \in {x \in DOMAIN d : ~(t - d[x] > leader_timeout)} |-> d[m]]

\* Node.get_alive_nodes, line 75: the keys of the dict after the deletion
get_alive_nodes(d, t) == DOMAIN remove_dead_nodes(d, t)

\* an update_heartbeat that refreshes every entry of the dict
update_heartbeat_refreshes_all(d, m, t) ==
    [x \in DOMAIN d \cup {m} |-> t]

\* Node.update_heartbeat, line 54: alive_nodes[node_id] = time.time()
update_heartbeat(d, m, t) ==
    [x \in DOMAIN d \cup {m} |-> IF x = m THEN t ELSE d[x]]

\* The clock when the process of TableNode was constructed and the dict as
\* it is after the nodes of `heard' were written at that instant.  Only
\* TableSpec lets the clock advance; elsewhere time is abstracted.
ClockStart(heard) ==
    /\ now = 0
    /\ last_seen = [m \in heard |-> 0]
    /\ last_heartbeat = 0

\* The state of a thread entering _run_election: with no higher node it goes
\* straight to declare_leader, otherwise it starts the send loop.
NewElectionThread(n) ==
    IF get_higher_nodes(n) = {}
    THEN [pc |-> "declare", todo |-> {}, got |-> FALSE]
    ELSE [pc |-> "send", todo |-> get_higher_nodes(n), got |-> FALSE]

FreeSlots(th) == {k \in Slots : th[k].pc = "idle"}

\* LeaderElection.start_election after its election_in_progress test passed:
\* the values of (election_in_progress, election_id, ethreads) of node n.
Spawn(n, th) == [th EXCEPT ![Min(FreeSlots(th))] = NewElectionThread(n)]

\* a set_leader that never clears the flag
set_leader_keeps_flag(n, l) == (l = n) \/ is_leader[n]

\* Node.set_leader: the (is_leader, leader_id) of a node n told that l leads
set_leader_is_leader(n, l) == (l = n)
set_leader_leader_id(n, l) == l

\* ------------------------------------------------------------------ jobs

\* a task id that create_task has not produced yet
NoTask == [status |-> "none", current_step |-> 0,
           steps |-> [i \in Steps |-> "none"],
           assigned_to |-> 0, retry_count |-> 0, assigned_at |-> "absent"]

\* TaskManager.create_task: the new task dict; it has no key assigned_at
NewTask == [status |-> "pending", current_step |-> 0,
            steps |-> [i \in Steps |-> "pending"],
            assigned_to |-> 0, retry_count |-> 0, assigned_at |-> "absent"]

IdleSweep == [pc |-> "idle", by |-> "none", workers |-> <<>>, cnt |-> 0,
              task |-> 0, worker |-> 0, reply |-> "none", raised |-> FALSE]

\* the task manager of a node that holds no job
NoTasks ==
    /\ tasks = [t \in TaskIds |-> NoTask]
    /\ pending = [n \in Nodes |-> <<>>]
    /\ in_progress = [n \in Nodes |-> {}]
    /\ completed = [n \in Nodes |-> {}]
    /\ failed = [n \in Nodes |-> {}]
    /\ sweep = [n \in Nodes |-> IdleSweep]
    /\ background = [n \in Nodes |-> 0]
    /\ accepted_by = [t \in TaskIds |-> 0]
    /\ received_by = [t \in TaskIds |-> 0]
    /\ step_failures = [t \in TaskIds |-> [i \in Steps |-> 0]]
    /\ failure_cause = [t \in TaskIds |-> "none"]
    /\ pruned = {}

SeqToSet(q) == {q[i] : i \in 1..Len(q)}

\* the orders in which a dict holding the keys S can list them
Orders(S) == {f \in [1..Cardinality(S) -> S] : \A i, j \in DOMAIN f : f[i] = f[j] => i = j}

\* TaskManager._get_worker_load
get_worker_load(n, w) == Cardinality({t \in in_progress[n] : tasks[t].assigned_to = w})

\* a worker set that does not exclude the node itself
get_available_workers_with_self(n) ==
    {w \in alive_nodes[n] : get_worker_load(n, w) < MaxWorkerLoad /\ w \in all_nodes}

\* a worker set that takes every configured peer, heard of or not
get_available_workers_all_peers(n) ==
    {w \in all_nodes : w # n /\ get_worker_load(n, w) < MaxWorkerLoad}

\* TaskManager._get_available_workers, as a set: the alive nodes other than
\* the node itself whose load is below the maximum and that all_nodes lists
get_available_workers(n) ==
    {w \in alive_nodes[n] : w # n /\ get_worker_load(n, w) < MaxWorkerLoad /\ w \in all_nodes}

\* a choice of the last pending step instead of the first
next_pending_step_last(task) ==
    IF \E i \in Steps : task.steps[i] = "pending"
    THEN CHOOSE i \in Steps : /\ task.steps[i] = "pending"
                              /\ \A j \in Steps : task.steps[j] = "pending" => j <= i
    ELSE 0

\* _assign_tasks, lines 111-115: the first step whose status is pending (0: none)
next_pending_step(task) ==
    IF \E i \in Steps : task.steps[i] = "pending"
    THEN Min({i \in Steps : task.steps[i] = "pending"})
    ELSE 0

\* an assignment that leaves the job's status as it was
assign_step_keeps_status(task, i, w) ==
    [task EXCEPT !.assigned_to = w, !.steps[i] = "assigned"]

\* _assign_tasks, lines 119-121
assign_step(task, i, w) ==
    [task EXCEPT !.status = "in_progress", !.assigned_to = w, !.steps[i] = "assigned"]

\* _process_task_result, line 208: the step the result is recorded for
assigned_step(task) ==
    IF \E i \in Steps : task.steps[i] = "assigned"
    THEN Min({i \in Steps : task.steps[i] = "assigned"})
    ELSE 0

\* a _process_task_result that does not advance current_step
process_task_result_keeps_current_step(task) ==
    LET i == assigned_step(task)
    IN  IF i = 0 THEN task
        ELSE IF i = NumSteps
        THEN [task EXCEPT !.steps[i] = "completed", !.status = "completed"]
        ELSE [task EXCEPT !.steps[i] = "completed", !.status = "pending",
                          !.assigned_to = 0]

\* a _process_task_result that gives every step its own retry budget
process_task_result_resets_retries(task) ==
    LET i == assigned_step(task)
    IN  IF i = 0 THEN task
        ELSE IF i = NumSteps
        THEN [task EXCEPT !.steps[i] = "completed", !.current_step = i,
                          !.status = "completed", !.retry_count = 0]
        ELSE [task EXCEPT !.steps[i] = "completed", !.current_step = i,
                          !.status = "pending", !.assigned_to = 0,
                          !.retry_count = 0]

\* _process_task_result, lines 207-233: the task dict afterwards
process_task_result(task) ==
    LET i == assigned_step(task)
    IN  IF i = 0 THEN task
        ELSE IF i = NumSteps
        THEN [task EXCEPT !.steps[i] = "completed", !.current_step = i,
                          !.status = "completed"]
        ELSE [task EXCEPT !.steps[i] = "completed", !.current_step = i,
                          !.status = "pending", !.assigned_to = 0]

\* a retry test that gives up one attempt early
retry_limit_one_early(count) == count >= max_retries - 1

\* a retry test that allows one more attempt
retry_limit_exceeded(count) == count > max_retries

\* _handle_task_failure, line 303
retry_limit_reached(count) == count >= max_retries

\* a _handle_task_failure that leaves the step assigned on a retry
handle_task_failure_keeps_assigned(task) ==
    LET count == task.retry_count + 1
    IN  IF retry_limit_reached(count)
        THEN [task EXCEPT !.retry_count = count, !.status = "failed"]
        ELSE [task EXCEPT !.retry_count = count, !.status = "pending",
                          !.assigned_to = 0]

\* a _handle_task_failure that resets every step on a retry
handle_task_failure_resets_all(task) ==
    LET count == task.retry_count + 1
    IN  IF retry_limit_reached(count)
        THEN [task EXCEPT !.retry_count = count, !.status = "failed"]
        ELSE [task EXCEPT !.retry_count = count, !.status = "pending",
                          !.assigned_to = 0,
                          !.steps = [i \in Steps |-> "pending"]]

\* _handle_task_failure, lines 299-320: the task dict afterwards
handle_task_failure(task) ==
    LET count == task.retry_count + 1
    IN  IF retry_limit_reached(count)
        THEN [task EXCEPT !.retry_count = count, !.status = "failed"]
        ELSE [task EXCEPT !.retry_count = count, !.status = "pending",
                          !.assigned_to = 0,
                          !.steps = [i \in Steps |->
                              IF task.steps[i] = "assigned" THEN "pending"
                              ELSE task.steps[i]]]

\* a put that drops the task
requeue_dropped(q, t) == q

\* _handle_task_failure, line 322, and _process_task_result, line 230:
\* self.pending_tasks.put(task)
requeue(q, t) == Append(q, t)

\* Node.get_leader_node: the configured node leader_id names (0: None)
get_leader_node(n) ==
    IF leader_id[n] = NoLeader THEN 0
    ELSE IF leader_id[n] \in all_nodes THEN leader_id[n]
    ELSE 0

\* a submit_task that queues on the node that received the request
SubmitTarget_local(n, hops) == IF status[n] = "up" THEN n ELSE 0

\* submit_task on node n: the node that runs create_task, following the
\* forwards to the known leader (0: no node does).  hops bounds the chain:
\* a chain that does not end times out.
RECURSIVE SubmitTarget(_, _)
SubmitTarget(n, hops) ==
    IF status[n] # "up" THEN 0
    ELSE IF is_leader[n] THEN n
    ELSE IF get_leader_node(n) = 0 THEN 0
    ELSE IF hops = 0 THEN 0
    ELSE SubmitTarget(get_leader_node(n), hops - 1)

\* the chain of forwards that starts at node n ends: it reaches a node that
\* answers at once (the leader, a node without leader) or whose own forward
\* is refused; a chain that runs in a circle ends by the timeouts only
RECURSIVE ForwardEnds(_, _)
ForwardEnds(n, hops) ==
    IF is_leader[n] \/ get_leader_node(n) = 0 THEN TRUE
    ELSE IF status[get_leader_node(n)] # "up" THEN TRUE
    ELSE IF hops = 0 THEN FALSE
    ELSE ForwardEnds(get_leader_node(n), hops - 1)

\* submit_task on a serving node n: the HTTP status of its answer.  The
\* leader answers 200; a node without leader raises 503; a forward that
\* raises (connection refused, timeout of 10 s) gives 502; a forward that
\* is answered returns the JSON body of the answer, whatever its status,
\* as 200.
submit_task_status(n) ==
    IF is_leader[n] THEN 200
    ELSE IF get_leader_node(n) = 0 THEN 503
    ELSE IF status[get_leader_node(n)] # "up" THEN 502
    ELSE IF ~ForwardEnds(get_leader_node(n), Cardinality(Nodes)) THEN 502
    ELSE 200

\* The cluster right after initialize_node on the nodes of `on': Node.__init__
\* recorded the node itself as alive, LeaderElection.__init__ called
\* start_election(); the other nodes are not started.
ColdStart(on) ==
    /\ all_nodes = Nodes
    /\ status = [n \in Nodes |-> IF n \in on THEN "init" ELSE "off"]
    /\ is_leader = [n \in Nodes |-> FALSE]
    /\ leader_id = [n \in Nodes |-> NoLeader]
    /\ alive_nodes = [n \in Nodes |-> IF n \in on THEN {n} ELSE {}]
    /\ election_in_progress = [n \in Nodes |-> n \in on]
    /\ election_id = [n \in Nodes |-> IF n \in on THEN n ELSE 0]
    /\ ethreads = [n \in Nodes |-> [k \in Slots |->
                      IF k = 1 /\ n \in on THEN NewElectionThread(n) ELSE Idle]]
    /\ monitor = [n \in Nodes |-> "loop"]
    /\ processing = [n \in Nodes |-> FALSE]
    /\ NoTasks
    /\ ClockStart({TableNode} \cap on)

\* all three nodes are started
Init == ColdStart(Nodes)

\* nodes 2 and 3 are started, node 1 is absent
InitTwo == ColdStart({2, 3})

\* An established cluster: every node serves, node 3 won the election and
\* runs the scheduler, every node has heard every other, no election runs.
Established3 ==
    /\ all_nodes = Nodes
    /\ status = [n \in Nodes |-> "up"]
    /\ is_leader = [n \in Nodes |-> n = 3]
    /\ leader_id = [n \in Nodes |-> 3]
    /\ alive_nodes = [n \in Nodes |-> Nodes]
    /\ election_in_progress = [n \in Nodes |-> FALSE]
    /\ election_id = [n \in Nodes |-> n]
    /\ ethreads = [n \in Nodes |-> [k \in Slots |-> Idle]]
    /\ monitor = [n \in Nodes |-> "loop"]
    /\ processing = [n \in Nodes |-> n = 3]
    /\ NoTasks
    /\ ClockStart(Nodes)

\* ------------------------------------------------------------ environment

\* uvicorn.run starts listening (run.py), after initialize_node
ServerUp(n) ==
    /\ status[n] = "init"
    /\ status' = [status EXCEPT ![n] = "up"]
    /\ UNCHANGED <<clockVars, all_nodes, nodeVars, electionVars, processing>>
    /\ UNCHANGED taskVars

\* the process dies: all its threads and its memory are gone
ProcessGone(n) ==
    /\ status' = [status EXCEPT ![n] = "down"]
    /\ is_leader' = [is_leader EXCEPT ![n] = FALSE]
    /\ leader_id' = [leader_id EXCEPT ![n] = NoLeader]
    /\ alive_nodes' = [alive_nodes EXCEPT ![n] = {}]
    /\ election_in_progress' = [election_in_progress EXCEPT ![n] = FALSE]
    /\ election_id' = [election_id EXCEPT ![n] = 0]
    /\ ethreads' = [ethreads EXCEPT ![n] = [k \in Slots |-> Idle]]
    /\ monitor' = [monitor EXCEPT ![n] = "loop"]
    /\ processing' = [processing EXCEPT ![n] = FALSE]
    /\ tasks' = [t \in TaskIds |->
                    IF accepted_by[t] = n THEN [NoTask EXCEPT !.status = "lost"]
                    ELSE tasks[t]]
    /\ pending' = [pending EXCEPT ![n] = <<>>]
    /\ in_progress' = [in_progress EXCEPT ![n] = {}]
    /\ completed' = [completed EXCEPT ![n] = {}]
    /\ failed' = [failed EXCEPT ![n] = {}]
    /\ sweep' = [sweep EXCEPT ![n] = IdleSweep]
    /\ background' = [background EXCEPT ![n] = 0]
    /\ failure_cause' = [t \in TaskIds |->
                            IF /\ failure_cause[t] = "none"
                               /\ \E l \in Nodes \ {n} :
                                      /\ sweep[l].pc = "rpc"
                                      /\ sweep[l].task = t
                                      /\ sweep[l].worker = n
                            THEN "worker_crash"
                            ELSE failure_cause[t]]
    /\ UNCHANGED <<clockVars, all_nodes, accepted_by, received_by, step_failures, pruned>>

\* the process is killed
Crash(n) ==
    /\ Running(n)
    /\ Cardinality({m \in Nodes : status[m] = "down"}) < MaxCrashes
    /\ \E m \in Nodes \ {n} : Running(m)
    /\ ProcessGone(n)

\* An entry is compared with the clock only when it is read: the monitor
\* reads the entry of leader_id, the scheduler's sweep those of the peers.
WillBeRead(n, m) ==
    \/ m = leader_id[n]
    \/ m # n /\ (pending[n] # <<>> \/ in_progress[n] # {} \/ background[n] > 0)

\* leader_timeout passes without a refresh of n's entry for m.  The entry of
\* n itself is written once, in Node.__init__, and never refreshed; that of a
\* crashed peer is not refreshed any more.
Expire(n, m) ==
    /\ Running(n)
    /\ m \in alive_nodes[n]
    /\ m = n \/ ~Running(m)
    /\ WillBeRead(n, m)
    /\ alive_nodes' = [alive_nodes EXCEPT ![n] = @ \ {m}]
    /\ UNCHANGED <<clockVars, envVars, is_leader, leader_id, electionVars, processing>>
    /\ UNCHANGED taskVars

\* --------------------------------------------------------------- heartbeat

\* HeartbeatManager._send_heartbeat_to_node(r) on s, and on delivery
\* receive_heartbeat -> Node.update_heartbeat(s) on r
Heartbeat(s, r) ==
    /\ s # r
    /\ r \in all_nodes
    /\ WillBeRead(r, s)
    /\ Running(s)
    /\ status[r] = "up"
    /\ s \notin alive_nodes[r]
    /\ alive_nodes' = [alive_nodes EXCEPT ![r] = @ \cup {s}]
    /\ UNCHANGED <<clockVars, envVars, is_leader, leader_id, electionVars, processing>>
    /\ UNCHANGED taskVars

\* ---------------------------------------------------------------- election

\* _monitor_leader, lines 42-44, and the test of start_election (line 55)
MonitorCheck(n) ==
    /\ Running(n)
    /\ monitor[n] = "loop"
    /\ leader_id[n] # NoLeader
    /\ ~election_in_progress[n]
    /\ ~is_node_alive(n, leader_id[n])
    /\ monitor' = [monitor EXCEPT ![n] = "start"]
    /\ UNCHANGED <<clockVars, envVars, nodeVars, election_in_progress, election_id,
                   ethreads, processing>>
    /\ UNCHANGED taskVars

\* start_election lines 58-62 on the monitor thread: the flag is written
\* without re-reading it
MonitorStart(n) ==
    /\ Running(n)
    /\ monitor[n] = "start"
    /\ FreeSlots(ethreads[n]) # {}
    /\ election_in_progress' = [election_in_progress EXCEPT ![n] = TRUE]
    /\ election_id' = [election_id EXCEPT ![n] = n]
    /\ ethreads' = [ethreads EXCEPT ![n] = Spawn(n, @)]
    /\ monitor' = [monitor EXCEPT ![n] = "loop"]
    /\ UNCHANGED <<clockVars, envVars, nodeVars, processing>>
    /\ UNCHANGED taskVars

\* One pass of _monitor_leader that is not preempted between the test of
\* election_in_progress and its write in start_election (lines 42-62)
MonitorElect(n) ==
    /\ Running(n)
    /\ monitor[n] = "loop"
    /\ leader_id[n] # NoLeader
    /\ ~election_in_progress[n]
    /\ ~is_node_alive(n, leader_id[n])
    /\ FreeSlots(ethreads[n]) # {}
    /\ election_in_progress' = [election_in_progress EXCEPT ![n] = TRUE]
    /\ election_id' = [election_id EXCEPT ![n] = n]
    /\ ethreads' = [ethreads EXCEPT ![n] = Spawn(n, @)]
    /\ UNCHANGED <<clockVars, envVars, nodeVars, monitor, processing>>
    /\ UNCHANGED taskVars

\* a receive_election_message that acts on its own election id only
ElectionMessageStarts_own_id(h, eid) ==
    /\ eid = election_id[h]
    /\ ~election_in_progress[h]

\* receive_election_message(sender_id, eid) on h: does h start an election?
ElectionMessageStarts(h, eid) ==
    /\ election_id[h] = 0 \/ eid # election_id[h]
    /\ ~election_in_progress[h]

\* a _run_election that declares whatever the higher nodes answered
AfterSendLoop_always_declares(got) == [pc |-> "declare", todo |-> {}, got |-> FALSE]

\* a _run_election whose answered thread waits for the winner's announcement
\* and never reaches its finally clause
AfterSendLoop_waits(got) ==
    IF got THEN [pc |-> "wait", todo |-> {}, got |-> TRUE]
    ELSE [pc |-> "declare", todo |-> {}, got |-> FALSE]

\* _run_election, lines 85-87 and 91-92, after the send loop: the thread
\* declares when no higher node answered and ends otherwise
AfterSendLoop(got) ==
    IF got THEN Idle ELSE [pc |-> "declare", todo |-> {}, got |-> FALSE]

\* One iteration of the send loop of _run_election (lines 76-82):
\* _send_election_message to the next higher node h.  A listening h runs
\* receive_election_message and answers 200.  After the last iteration a
\* thread that got an answer leaves through finally (lines 85, 91-92).
ElectSend(n, k) ==
    LET t == ethreads[n][k]
        h == Min(t.todo)
        delivered == status[h] = "up"
        starts == delivered /\ ElectionMessageStarts(h, election_id[n])
        got2 == t.got \/ delivered
        rest == t.todo \ {h}
        t2 == IF rest # {} THEN [t EXCEPT !.todo = rest, !.got = got2]
              ELSE AfterSendLoop(got2)
        eip1 == IF rest = {} /\ AfterSendLoop(got2) = Idle
                THEN [election_in_progress EXCEPT ![n] = FALSE]
                ELSE election_in_progress
    IN  /\ ProcessExists(n)
        /\ t.pc = "send"
        /\ starts => FreeSlots(ethreads[h]) # {}
        /\ ethreads' = [ethreads EXCEPT
                          ![n] = [@ EXCEPT ![k] = t2],
                          ![h] = IF starts THEN Spawn(h, @) ELSE @]
        /\ election_in_progress' =
              IF starts THEN [eip1 EXCEPT ![h] = TRUE] ELSE eip1
        /\ election_id' = IF starts THEN [election_id EXCEPT ![h] = h]
                          ELSE election_id
        /\ UNCHANGED <<clockVars, envVars, nodeVars, monitor, processing>>
        /\ UNCHANGED taskVars

\* declare_leader, line 149 (after the election_timeout sleep when higher
\* nodes exist and none answered)
Declare(n, k) ==
    /\ ProcessExists(n)
    /\ ethreads[n][k].pc = "declare"
    /\ is_leader' = [is_leader EXCEPT ![n] = set_leader_is_leader(n, n)]
    /\ leader_id' = [leader_id EXCEPT ![n] = set_leader_leader_id(n, n)]
    /\ IF all_nodes \ {n} # {}
       THEN /\ ethreads' = [ethreads EXCEPT ![n][k] =
                   [pc |-> "announce", todo |-> all_nodes \ {n}, got |-> FALSE]]
            /\ UNCHANGED <<election_in_progress, processing>>
       ELSE \* nobody to announce to: start_processing and finally follow
            /\ ethreads' = [ethreads EXCEPT ![n][k] = Idle]
            /\ processing' = [processing EXCEPT ![n] = TRUE]
            /\ election_in_progress' = [election_in_progress EXCEPT ![n] = FALSE]
    /\ UNCHANGED <<clockVars, envVars, alive_nodes, election_id, monitor>>
    /\ UNCHANGED taskVars

\* declare_leader, lines 152-154: _announce_leader_to_node(o); a listening o
\* runs receive_leader_announcement(n) -> set_leader(n).  After the last
\* announcement: TaskManager.start_processing (line 157) and the finally of
\* _run_election (lines 91-92).
Announce(n, k) ==
    LET t == ethreads[n][k]
        o == Min(t.todo)
        rest == t.todo \ {o}
    IN  /\ ProcessExists(n)
        /\ t.pc = "announce"
        /\ IF status[o] = "up"
           THEN /\ is_leader' = [is_leader EXCEPT ![o] = set_leader_is_leader(o, n)]
                /\ leader_id' = [leader_id EXCEPT ![o] = set_leader_leader_id(o, n)]
           ELSE UNCHANGED <<is_leader, leader_id>>
        /\ IF rest = {}
           THEN /\ ethreads' = [ethreads EXCEPT ![n][k] = Idle]
                /\ processing' = [processing EXCEPT ![n] = @ \/ is_leader[n]]
                /\ election_in_progress' = [election_in_progress EXCEPT ![n] = FALSE]
           ELSE /\ ethreads' = [ethreads EXCEPT ![n][k] = [t EXCEPT !.todo = rest]]
                /\ UNCHANGED <<processing, election_in_progress>>
        /\ UNCHANGED <<clockVars, envVars, alive_nodes, election_id, monitor>>
        /\ UNCHANGED taskVars

NextElection ==
    \/ \E n \in Nodes : ServerUp(n)
    \/ \E n \in Nodes : Crash(n)
    \/ \E n, m \in Nodes : Expire(n, m)
    \/ \E s, r \in Nodes : Heartbeat(s, r)
    \/ \E n \in Nodes : MonitorElect(n)
    \/ \E n \in Nodes, k \in Slots : ElectSend(n, k)
    \/ \E n \in Nodes, k \in Slots : Declare(n, k)
    \/ \E n \in Nodes, k \in Slots : Announce(n, k)

\* --------------------------------------------------------------- scheduler

\* POST /submit_task on node n (main.py): a non-leader forwards to its
\* leader; the leader runs create_task (under TaskManager.lock) and queues
\* process_pending_tasks as a background task.
Submit(n) ==
    LET l == SubmitTarget(n, Cardinality(Nodes))
        t == Min({u \in TaskIds : accepted_by[u] = 0})
    IN  /\ \E u \in TaskIds : accepted_by[u] = 0
        /\ l # 0
        /\ submit_task_status(n) = 200
        /\ sweep[l].pc = "idle"
        /\ tasks' = [tasks EXCEPT ![t] = NewTask]
        /\ pending' = [pending EXCEPT ![l] = Append(@, t)]
        /\ background' = [background EXCEPT ![l] = @ + 1]
        /\ accepted_by' = [accepted_by EXCEPT ![t] = l]
        /\ received_by' = [received_by EXCEPT ![t] = n]
        /\ UNCHANGED <<clockVars, envVars, nodeVars, electionVars, processing, in_progress,
                       completed, failed, sweep, step_failures, failure_cause, pruned>>

\* _assign_tasks, lines 96-104, entered with the lock free and something to
\* assign.  by = "loop": from _process_tasks, which tested is_leader (line
\* 83); by = "api": a queued process_pending_tasks, which tests nothing.
SweepStart(n, by) ==
    /\ ProcessExists(n)
    /\ sweep[n].pc = "idle"
    /\ \/ by = "loop" /\ processing[n] /\ is_leader[n]
       \/ by = "api" /\ background[n] > 0
    /\ background' = [background EXCEPT ![n] = IF by = "api" THEN @ - 1 ELSE @]
    /\ IF pending[n] # <<>> /\ get_available_workers(n) # {}
       THEN \E ws \in Orders(get_available_workers(n)) :
               sweep' = [sweep EXCEPT ![n] =
                   [IdleSweep EXCEPT !.pc = "loop", !.by = by, !.workers = ws]]
       ELSE /\ by = "api"
            /\ UNCHANGED sweep
    /\ UNCHANGED <<clockVars, envVars, nodeVars, electionVars, processing, tasks, pending,
                   in_progress, completed, failed, accepted_by, received_by, step_failures,
                   failure_cause, pruned>>

\* the test of the while loop of _assign_tasks, line 105
MoreToAssign(n) ==
    /\ pending[n] # <<>>
    /\ sweep[n].workers # <<>>
    /\ sweep[n].cnt < Len(sweep[n].workers)

\* _assign_tasks, lines 107-127, up to the POST of _assign_task_to_worker
SweepDispatch(n) ==
    LET t == Head(pending[n])
        w == sweep[n].workers[sweep[n].cnt + 1]
        i == next_pending_step(tasks[t])
    IN  /\ ProcessExists(n)
        /\ sweep[n].pc = "loop"
        /\ MoreToAssign(n)
        /\ pending' = [pending EXCEPT ![n] = Tail(@)]
        /\ IF i # 0
           THEN /\ tasks' = [tasks EXCEPT ![t] = assign_step(@, i, w)]
                /\ in_progress' = [in_progress EXCEPT ![n] = @ \cup {t}]
                /\ sweep' = [sweep EXCEPT ![n].pc = "rpc", ![n].task = t,
                                          ![n].worker = w]
           ELSE UNCHANGED <<tasks, in_progress, sweep>>
        /\ UNCHANGED <<clockVars, envVars, nodeVars, electionVars, processing, completed,
                       failed, background, accepted_by, received_by, step_failures,
                       failure_cause, pruned>>

\* what the POST /execute_task to worker w can come back with: a node that
\* is not serving refuses the connection or never answers
PossibleReplies(w) ==
    IF status[w] = "up" THEN {"completed", "failed", "http_error", "timeout"}
    ELSE {"conn_error", "timeout"}

\* TaskExecutor.execute_task on the worker: the status of the dict it
\* returns; an exception of the step function is caught (lines 41-47)
TaskExecutor_execute_task(raises) == IF raises THEN "error" ELSE "success"

\* POST /execute_task on the worker (main.py): the status of the answer,
\* "failed" only when the call of the executor itself raises
execute_task(raises) ==
    IF TaskExecutor_execute_task(raises) \in {"success", "error"}
    THEN "completed"
    ELSE "failed"

\* _assign_task_to_worker, line 182: requests.post returns or raises.
\* raises: the step function raised inside the worker, which then answers
\* what execute_task makes of it.
RpcReturn(n, r) ==
    /\ ProcessExists(n)
    /\ sweep[n].pc = "rpc"
    /\ r \in PossibleReplies(sweep[n].worker)
    /\ \E raises \in BOOLEAN :
          /\ raises => (status[sweep[n].worker] = "up" /\ r = execute_task(raises))
          /\ sweep' = [sweep EXCEPT ![n].pc = "reply", ![n].reply = r,
                                    ![n].raised = raises]
    /\ failure_cause' = [failure_cause EXCEPT ![sweep[n].task] =
                             IF r = "completed" THEN @
                             ELSE IF @ = "worker_crash" /\ ~Running(sweep[n].worker)
                             THEN @
                             ELSE "other"]
    /\ UNCHANGED <<clockVars, envVars, nodeVars, electionVars, processing, tasks, pending,
                   in_progress, completed, failed, background, accepted_by, received_by,
                   step_failures, pruned>>

\* _assign_task_to_worker, lines 183-196: _process_task_result on a 200
\* reply with status completed, _handle_task_failure otherwise; then
\* assigned_count += 1 (line 129)
SweepHandle(n) ==
    LET t == sweep[n].task
        ok == sweep[n].reply = "completed"
        new == IF ok THEN process_task_result(tasks[t])
               ELSE handle_task_failure(tasks[t])
    IN  /\ ProcessExists(n)
        /\ sweep[n].pc = "reply"
        /\ tasks' = [tasks EXCEPT ![t] = new]
        /\ in_progress' = [in_progress EXCEPT ![n] = @ \ {t}]
        /\ pending' = [pending EXCEPT ![n] =
                          IF new.status = "pending" THEN requeue(@, t) ELSE @]
        /\ completed' = [completed EXCEPT ![n] =
                            IF new.status = "completed" THEN @ \cup {t} ELSE @]
        /\ failed' = [failed EXCEPT ![n] =
                         IF new.status = "failed" THEN @ \cup {t} ELSE @]
        /\ step_failures' = [step_failures EXCEPT ![t][assigned_step(tasks[t])] =
                                IF ok THEN @ ELSE @ + 1]
        /\ sweep' = [sweep EXCEPT ![n].pc = "loop", ![n].cnt = @ + 1,
                                  ![n].task = 0, ![n].worker = 0,
                                  ![n].reply = "none", ![n].raised = FALSE]
        /\ UNCHANGED <<clockVars, envVars, nodeVars, electionVars, processing, background,
                       accepted_by, received_by, failure_cause, pruned>>

\* _assign_tasks returns: the while test fails and the lock is released
SweepEnd(n) ==
    /\ ProcessExists(n)
    /\ sweep[n].pc = "loop"
    /\ ~MoreToAssign(n)
    /\ sweep' = [sweep EXCEPT ![n] = IdleSweep]
    /\ UNCHANGED <<clockVars, envVars, nodeVars, electionVars, processing, tasks, pending,
                   in_progress, completed, failed, background, accepted_by, received_by,
                   step_failures, failure_cause, pruned>>

\* _cleanup_completed_tasks in a pass of _process_tasks: a completed task
\* older than one hour is dropped
Cleanup(n, t) ==
    /\ ProcessExists(n)
    /\ processing[n] /\ is_leader[n]
    /\ sweep[n].pc = "idle"
    /\ t \in completed[n]
    /\ completed' = [completed EXCEPT ![n] = @ \ {t}]
    /\ pruned' = pruned \cup {t}
    /\ UNCHANGED <<clockVars, envVars, nodeVars, electionVars, processing, tasks, pending,
                   in_progress, failed, sweep, background, accepted_by, received_by,
                   step_failures, failure_cause>>

NextTasks ==
    \/ \E n \in Nodes : Submit(n)
    \/ \E n \in Nodes, by \in {"loop", "api"} : SweepStart(n, by)
    \/ \E n \in Nodes : SweepDispatch(n)
    \/ \E n \in Nodes, r \in Replies : RpcReturn(n, r)
    \/ \E n \in Nodes : SweepHandle(n)
    \/ \E n \in Nodes : SweepEnd(n)
    \/ \E n \in Nodes, t \in TaskIds : Cleanup(n, t)

Next == NextElection \/ NextTasks

\* the cluster without client submissions
ElectionSpec == Init /\ [][NextElection]_vars

\* the same, with the monitor thread preempted inside start_election
NextRace ==
    \/ NextElection
    \/ \E n \in Nodes : MonitorCheck(n)
    \/ \E n \in Nodes : MonitorStart(n)

RaceSpec == InitTwo /\ [][NextRace]_vars

\* Every thread keeps running and time keeps passing; crashes are not forced.
ElectionFairness ==
    /\ \A n \in Nodes : WF_vars(ServerUp(n))
    /\ \A n, m \in Nodes : WF_vars(Expire(n, m))
    /\ \A s, r \in Nodes : WF_vars(Heartbeat(s, r))
    /\ \A n \in Nodes : WF_vars(MonitorElect(n))
    /\ \A n \in Nodes, k \in Slots : WF_vars(ElectSend(n, k))
    /\ \A n \in Nodes, k \in Slots : WF_vars(Declare(n, k))
    /\ \A n \in Nodes, k \in Slots : WF_vars(Announce(n, k))

FairElectionSpec == InitTwo /\ [][NextElection]_vars /\ ElectionFairness

\* the steps of a cluster whose servers all listen and whose nodes have all
\* heard each other: the entries of serving peers stay fresh
NextServing ==
    \/ \E n \in Nodes : Crash(n)
    \/ \E n, m \in Nodes : Expire(n, m)
    \/ \E n \in Nodes : MonitorElect(n)
    \/ \E n \in Nodes, k \in Slots : ElectSend(n, k)
    \/ \E n \in Nodes, k \in Slots : Declare(n, k)
    \/ \E n \in Nodes, k \in Slots : Announce(n, k)
    \/ NextTasks

\* the cluster with clients, from an established leader 3 with workers 1, 2
TaskSpec == Established3 /\ [][NextServing]_vars

\* Node 2 serves alone and elected itself while node 3 was not reachable;
\* node 1 is absent; node 3 is just being started.
Established2Alone ==
    /\ all_nodes = Nodes
    /\ status = [n \in Nodes |-> IF n = 3 THEN "init" ELSE IF n = 2 THEN "up" ELSE "off"]
    /\ is_leader = [n \in Nodes |-> n = 2]
    /\ leader_id = [n \in Nodes |-> IF n = 2 THEN 2 ELSE NoLeader]
    /\ alive_nodes = [n \in Nodes |-> IF n = 1 THEN {} ELSE {n}]
    /\ election_in_progress = [n \in Nodes |-> n = 3]
    /\ election_id = [n \in Nodes |-> IF n = 1 THEN 0 ELSE n]
    /\ ethreads = [n \in Nodes |-> [k \in Slots |->
                      IF k = 1 /\ n = 3 THEN NewElectionThread(n) ELSE Idle]]
    /\ monitor = [n \in Nodes |-> "loop"]
    /\ processing = [n \in Nodes |-> n = 2]
    /\ NoTasks
    /\ ClockStart({})

\* the cluster with clients while a higher node joins
JoinSpec == Established2Alone /\ [][Next]_vars

\* The scheduler threads keep running; clients need not submit, completed
\* tasks need not age, nodes need not crash.
TaskFairness ==
    /\ \A n \in Nodes, by \in {"loop", "api"} : WF_vars(SweepStart(n, by))
    /\ \A n \in Nodes : WF_vars(SweepDispatch(n))
    /\ \A n \in Nodes : WF_vars(\E r \in Replies : RpcReturn(n, r))
    /\ \A n \in Nodes : WF_vars(SweepHandle(n))
    /\ \A n \in Nodes : WF_vars(SweepEnd(n))

FairJoinSpec == Established2Alone /\ [][Next]_vars /\ ElectionFairness /\ TaskFairness

\* A cluster whose configuration lists one node, right after initialize_node
SingleStart ==
    \E n \in Nodes :
        /\ all_nodes = {n}
        /\ status = [m \in Nodes |-> IF m = n THEN "init" ELSE "off"]
        /\ is_leader = [m \in Nodes |-> FALSE]
        /\ leader_id = [m \in Nodes |-> NoLeader]
        /\ alive_nodes = [m \in Nodes |-> IF m = n THEN {n} ELSE {}]
        /\ election_in_progress = [m \in Nodes |-> m = n]
        /\ election_id = [m \in Nodes |-> IF m = n THEN n ELSE 0]
        /\ ethreads = [m \in Nodes |-> [k \in Slots |->
                          IF k = 1 /\ m = n THEN NewElectionThread(n) ELSE Idle]]
        /\ monitor = [m \in Nodes |-> "loop"]
        /\ processing = [m \in Nodes |-> FALSE]
        /\ NoTasks
        /\ ClockStart({TableNode} \cap {n})

\* the steps of a cluster that was configured with one node or is
\* established with three: a node that is started begins to listen
NextAnySize ==
    \/ \E n \in Nodes : ServerUp(n)
    \/ NextServing

\* clusters of one node, cold, and of three nodes, established
AnySizeSpec == (SingleStart \/ Established3) /\ [][NextAnySize]_vars

\* Nodes 1 and 3 are started and listen, node 2 is absent: both run the
\* election of their constructor.
InitOneThree ==
    /\ all_nodes = Nodes
    /\ status = [n \in Nodes |-> IF n = 2 THEN "off" ELSE "up"]
    /\ is_leader = [n \in Nodes |-> FALSE]
    /\ leader_id = [n \in Nodes |-> NoLeader]
    /\ alive_nodes = [n \in Nodes |-> IF n = 2 THEN {} ELSE {n}]
    /\ election_in_progress = [n \in Nodes |-> n # 2]
    /\ election_id = [n \in Nodes |-> IF n = 2 THEN 0 ELSE n]
    /\ ethreads = [n \in Nodes |-> [k \in Slots |->
                      IF k = 1 /\ n # 2 THEN NewElectionThread(n) ELSE Idle]]
    /\ monitor = [n \in Nodes |-> "loop"]
    /\ processing = [n \in Nodes |-> FALSE]
    /\ NoTasks
    /\ ClockStart({TableNode})

\* the cold starts of two nodes: 2 and 3 not listening yet, or 1 and 3
\* listening with 2 absent; with crashes and the preempted monitor
BullySpec == (InitTwo \/ InitOneThree) /\ [][NextRace]_vars

\* ---------------------------------------------------------------- shutdown

\* shutdown_event (main.py), run by uvicorn once the server has stopped
\* listening: HeartbeatManager.stop and LeaderElection.stop clear their
\* running flags and join their loops.  TaskManager.running is not touched.
Shutdown(n) ==
    /\ status[n] = "up"
    /\ Cardinality({m \in Nodes : status[m] \in {"stopping", "down"}}) < MaxCrashes
    /\ status' = [status EXCEPT ![n] = "stopping"]
    /\ UNCHANGED <<clockVars, all_nodes, nodeVars, electionVars, processing>>
    /\ UNCHANGED taskVars

\* uvicorn.run returns (run.py) and the interpreter exits: the daemon
\* threads die with it
Exit(n) ==
    /\ status[n] = "stopping"
    /\ ProcessGone(n)

\* the steps of the scheduler of the established cluster when a node is
\* shut down in order; no election runs
NextShutdown ==
    \/ \E n \in Nodes : Shutdown(n)
    \/ \E n \in Nodes : Exit(n)
    \/ \E n, m \in Nodes : Expire(n, m)
    \/ NextTasks

ShutdownSpec == Established3 /\ [][NextShutdown]_vars

\* --------------------------------------------------- the table in time

\* time passes; what is_node_alive answers on TableNode follows the clock
Tick ==
    /\ now < MaxClock
    /\ now' = now + 1
    /\ alive_nodes' = [alive_nodes EXCEPT ![TableNode] =
                          {m \in Nodes : is_node_alive_at(last_seen, m, now')}]
    /\ UNCHANGED <<last_seen, last_heartbeat, envVars, is_leader, leader_id,
                   electionVars, processing>>
    /\ UNCHANGED taskVars

\* POST /heartbeat from peer p on TableNode: receive_heartbeat ->
\* Node.update_heartbeat(p), lines 51-57
ReceiveHeartbeat(p) ==
    /\ p \in all_nodes \ {TableNode}
    /\ Running(p)
    /\ status[TableNode] = "up"
    /\ last_seen' = update_heartbeat(last_seen, p, now)
    /\ last_heartbeat' = IF p = leader_id[TableNode] THEN now ELSE last_heartbeat
    /\ alive_nodes' = [alive_nodes EXCEPT ![TableNode] =
                          {m \in Nodes : is_node_alive_at(last_seen', m, now)}]
    /\ UNCHANGED <<now, envVars, is_leader, leader_id, electionVars, processing>>
    /\ UNCHANGED taskVars

\* POST /leader naming peer l on TableNode: receive_leader_announcement ->
\* Node.set_leader(l), lines 93-104
ReceiveAnnouncement(l) ==
    /\ l \in all_nodes \ {TableNode}
    /\ Running(l)
    /\ status[TableNode] = "up"
    /\ is_leader' = [is_leader EXCEPT ![TableNode] = set_leader_is_leader(TableNode, l)]
    /\ leader_id' = [leader_id EXCEPT ![TableNode] = set_leader_leader_id(TableNode, l)]
    /\ last_heartbeat' = now
    /\ UNCHANGED <<now, last_seen, envVars, alive_nodes, electionVars, processing>>
    /\ UNCHANGED taskVars

\* GET /status on TableNode: Node.get_alive_nodes deletes the dead entries
ReadAliveNodes ==
    /\ status[TableNode] = "up"
    /\ last_seen' = remove_dead_nodes(last_seen, now)
    /\ UNCHANGED <<now, last_heartbeat, envVars, nodeVars, electionVars, processing>>
    /\ UNCHANGED taskVars

NextTable ==
    \/ Tick
    \/ \E p \in Nodes : ReceiveHeartbeat(p)
    \/ \E l \in Nodes : ReceiveAnnouncement(l)
    \/ ReadAliveNodes

\* the liveness table of one follower of the established cluster under the
\* messages it receives, with the clock
TableSpec == Established3 /\ [][NextTable]_vars

\* ------------------------------------------------------------------ claims

LiveNodes == {n \in Nodes : Running(n)}
Leaders == {n \in LiveNodes : is_leader[n]}
Max(S) == CHOOSE x \in S : \A y \in S : x >= y

\* C1: once no more node crashes and every server listens, the cluster
\* reaches and keeps a state with exactly one live leader.
C1_EventuallyOneLeader == <>[](Cardinality(Leaders) = 1)

\* C2: once the network is stable, the live node with the highest id is
\* leader and every live node's leader_id is that id.
C2_HighestLiveNodeLeads ==
    <>[](/\ is_leader[Max(LiveNodes)]
         /\ \A n \in LiveNodes : leader_id[n] = Max(LiveNodes))

\* C3: on every node, is_leader implies leader_id = node_id, and a node that
\* is not leader and knows a leader knows another node.
C3_RoleMatchesLeaderId ==
    \A n \in Nodes :
        /\ is_leader[n] => leader_id[n] = n
        /\ (~is_leader[n] /\ leader_id[n] # NoLeader) => leader_id[n] # n

\* C3 witness: a node declared itself leader and a peer accepted its
\* announcement
C3_Witness ==
    \E n, m \in Nodes :
        /\ n # m
        /\ is_leader[n] /\ leader_id[n] = n
        /\ ~is_leader[m] /\ leader_id[m] = n
        /\ processing[m]

RunningElections(n) == {k \in Slots : ethreads[n][k].pc # "idle"}

\* C4: on every node at most one _run_election thread runs, and
\* election_in_progress is true exactly while one runs.
C4_OneElectionPerNode ==
    \A n \in Nodes :
        /\ Cardinality(RunningElections(n)) <= 1
        /\ election_in_progress[n] <=> RunningElections(n) # {}

\* the collections of TaskManager on node n
JobCollections(n) == <<pending[n], in_progress[n], completed[n], failed[n]>>

\* node n has processed a leader announcement naming another node
Demoted(n) == ~is_leader[n] /\ leader_id[n] \notin {NoLeader, n}

\* C5: a serving node that has accepted another node as leader sends no
\* execute_task RPC and moves no job between its collections.
C5_OnlyLeaderSchedules ==
    [][\A n \in Nodes :
          (status[n] = "up" /\ status'[n] = "up" /\ Demoted(n) /\ Demoted(n)')
          => /\ JobCollections(n)' = JobCollections(n)
             /\ ~(sweep[n].pc = "loop" /\ sweep'[n].pc = "rpc")]_vars

\* the number of places of node n's collections that hold task t
Places(n, t) ==
    Cardinality({i \in 1..Len(pending[n]) : pending[n][i] = t})
    + (IF t \in in_progress[n] THEN 1 ELSE 0)
    + (IF t \in completed[n] THEN 1 ELSE 0)
    + (IF t \in failed[n] THEN 1 ELSE 0)

\* C6: whenever the scheduler lock of a running node is free, every job the
\* node accepted is in exactly one of pending, in_progress, completed and
\* failed, or was pruned from completed and is in none.
C6_NoJobLost ==
    \A t \in TaskIds :
        LET n == accepted_by[t]
        IN  (n # 0 /\ Running(n) /\ sweep[n].pc = "idle")
            => /\ Places(n, t) = (IF t \in pruned THEN 0 ELSE 1)
               /\ t \in pruned => tasks[t].status = "completed"
               /\ t \in SeqToSet(pending[n]) <=> tasks[t].status = "pending"
               /\ t \in completed[n] \cup pruned <=> tasks[t].status = "completed"
               /\ t \in failed[n] <=> tasks[t].status = "failed"

\* C6 witness: a job that passed a step, then failed a dispatch, waits in
\* pending again while the lock is free
C6_Witness ==
    \E t \in TaskIds :
        LET n == accepted_by[t]
        IN  /\ n # 0 /\ Running(n) /\ sweep[n].pc = "idle"
            /\ tasks[t].current_step >= 1
            /\ tasks[t].retry_count >= 1
            /\ t \in SeqToSet(pending[n])

\* C7: every job accepted by a node that does not crash and keeps a live
\* peer eventually is completed or failed.
C7_EveryJobEnds ==
    \A t \in TaskIds :
        (accepted_by[t] # 0) ~>
            (/\ accepted_by[t] # 0
             /\ \/ tasks[t].status \in {"completed", "failed"}
                \/ ~Running(accepted_by[t])
                \/ \A m \in Nodes \ {accepted_by[t]} : ~Running(m))

\* C8: a job of leader 3 that had a step assigned to a worker when that
\* worker crashed, and whose only failed dispatches went to the crashed
\* worker, never ends in failed while the other worker serves.
C8_WorkerCrashNeverFails ==
    \A t \in TaskIds :
        (/\ accepted_by[t] = 3 /\ Running(3)
         /\ failure_cause[t] = "worker_crash"
         /\ \E w \in {1, 2} : status[w] = "up")
        => tasks[t].status # "failed"

\* C9: handling a reply other than completed adds one to retry_count; at
\* max_retries the job becomes failed and moves to the failed collection,
\* which grows by one; below it the assigned step is pending again,
\* assigned_to is cleared and the job is appended to pending.
C9_FailurePath ==
    [][\A n \in Nodes :
          (sweep[n].pc = "reply" /\ sweep[n].reply # "completed" /\ sweep'[n].pc = "loop")
          => LET t == sweep[n].task
                 old == tasks[t]
                 new == tasks'[t]
             IN  /\ new.retry_count = old.retry_count + 1
                 /\ t \notin in_progress'[n]
                 /\ IF new.retry_count >= max_retries
                    THEN /\ new.status = "failed"
                         /\ failed'[n] = failed[n] \cup {t}
                         /\ Cardinality(failed'[n]) = Cardinality(failed[n]) + 1
                         /\ pending'[n] = pending[n]
                    ELSE /\ new.status = "pending"
                         /\ new.steps[assigned_step(old)] = "pending"
                         /\ new.assigned_to = 0
                         /\ pending'[n] = Append(pending[n], t)
                         /\ failed'[n] = failed[n]]_vars

\* C9 witness: after max_retries failed dispatches the job is the one failed
\* job of the leader
C9_Witness ==
    \E t \in TaskIds :
        LET n == accepted_by[t]
        IN  /\ n # 0
            /\ tasks[t].status = "failed"
            /\ tasks[t].retry_count = max_retries
            /\ failed[n] = {t}
            /\ sweep[n].pc = "loop"

\* the failed dispatches of task t over all its steps
TotalFailures(t) ==
    step_failures[t][1] + step_failures[t][2] + step_failures[t][3]

\* a job whose record is still held by the node that accepted it
Held(t) == accepted_by[t] # 0 /\ Running(accepted_by[t])

\* C10 as stated: a job is failed exactly when one of its steps has failed
\* max_retries times.
C10_PerStepBoundary ==
    \A t \in TaskIds :
        Held(t) =>
            (tasks[t].status = "failed"
                <=> \E i \in Steps : step_failures[t][i] = max_retries)

\* C10 amended: a job is failed exactly when its failed dispatches, summed
\* over all its steps, have reached max_retries; retry_count is that sum.
C10_JobLevelBoundary ==
    \A t \in TaskIds :
        Held(t) =>
            /\ tasks[t].retry_count = TotalFailures(t)
            /\ tasks[t].status = "failed" <=> TotalFailures(t) = max_retries
            /\ TotalFailures(t) <= max_retries

\* C10 witness: a job failed by failures on two different steps
C10_Witness ==
    \E t \in TaskIds :
        /\ Held(t)
        /\ tasks[t].status = "failed"
        /\ \E i, j \in Steps : i < j /\ step_failures[t][i] > 0 /\ step_failures[t][j] > 0

\* the steps of task t whose status is assigned
AssignedSteps(t) == {i \in Steps : tasks[t].steps[i] = "assigned"}

\* the steps of task t whose status is completed
CompletedSteps(t) == {i \in Steps : tasks[t].steps[i] = "completed"}

\* C11: every job has at most one step in status assigned.
C11_OneAssignedStep ==
    \A t \in TaskIds : Cardinality(AssignedSteps(t)) <= 1

\* C11 witness: the first step of a job is assigned again after a failed
\* dispatch
C11_Witness ==
    \E t \in TaskIds :
        /\ Held(t)
        /\ tasks[t].retry_count >= 1
        /\ AssignedSteps(t) = {1}
        /\ t \in in_progress[accepted_by[t]]

\* C12: current_step of every job is the (0-based) index of its first step
\* that is not completed, and the number of steps once the job is completed.
C12_CurrentStepIsFirstOpen ==
    \A t \in TaskIds :
        Held(t) =>
            /\ tasks[t].current_step =
                  (IF CompletedSteps(t) = Steps THEN NumSteps
                   ELSE Min(Steps \ CompletedSteps(t)) - 1)
            /\ tasks[t].status = "completed" => tasks[t].current_step = NumSteps

\* C12 witness: a job that completed two steps and failed a dispatch
C12_Witness ==
    \E t \in TaskIds :
        /\ Held(t)
        /\ tasks[t].current_step = 2
        /\ tasks[t].retry_count >= 1
        /\ tasks[t].status = "pending"

\* C13: every job in the completed collection, and every job of status
\* completed, has all its steps in status completed.
C13_CompletedJobHasAllSteps ==
    \A t \in TaskIds :
        (tasks[t].status = "completed" \/ \E n \in Nodes : t \in completed[n])
        => CompletedSteps(t) = Steps

\* C13 witness: a job in the completed collection that needed a retry
C13_Witness ==
    \E t \in TaskIds :
        /\ Held(t)
        /\ t \in completed[accepted_by[t]]
        /\ tasks[t].retry_count >= 1

\* C14: every job in the failed collection has retry_count >= max_retries,
\* and no job has retry_count > max_retries.
C14_FailedJobUsedItsRetries ==
    \A t \in TaskIds :
        /\ (tasks[t].status = "failed" \/ \E n \in Nodes : t \in failed[n])
           => tasks[t].retry_count >= max_retries
        /\ tasks[t].retry_count <= max_retries

\* C14 witness: a job failed after it had completed a step
C14_Witness ==
    \E t \in TaskIds :
        /\ Held(t)
        /\ t \in failed[accepted_by[t]]
        /\ tasks[t].retry_count = max_retries
        /\ tasks[t].current_step >= 1

\* C15: the step a sweep dispatches is the lowest step not completed, it
\* was pending, and a completed step of a held job stays completed.
C15_StepsInOrder ==
    [][\A n \in Nodes :
          /\ (sweep[n].pc = "loop" /\ sweep'[n].pc = "rpc")
             => LET t == sweep'[n].task
                    i == assigned_step(tasks'[t])
                IN  /\ i # 0
                    /\ tasks[t].steps[i] = "pending"
                    /\ \A j \in Steps : j < i => tasks[t].steps[j] = "completed"
                    /\ {j \in Steps : tasks'[t].steps[j] = "assigned"} = {i}
          /\ \A t \in TaskIds :
                (accepted_by[t] = n /\ Running(n)')
                => \A i \in Steps : tasks[t].steps[i] = "completed"
                                    => tasks'[t].steps[i] = "completed"]_vars

\* C15 witness: the second step is dispatched again after a failed dispatch
C15_Witness ==
    \E t \in TaskIds :
        /\ Held(t)
        /\ tasks[t].retry_count >= 1
        /\ tasks[t].steps = <<"completed", "assigned", "pending">>
        /\ sweep[accepted_by[t]].pc = "rpc"

\* the forward of a submission by the non-leader n raises: the connection
\* to the known leader is refused or the request times out
ForwardFails(n) ==
    /\ get_leader_node(n) # 0
    /\ \/ status[get_leader_node(n)] # "up"
       \/ ~ForwardEnds(get_leader_node(n), Cardinality(Nodes))

\* C16: a serving node that is not leader answers a submission with 503
\* when it knows no leader and when the forward to the known leader fails.
C16_NonLeaderAnswers503 ==
    \A n \in Nodes :
        (status[n] = "up" /\ ~is_leader[n] /\ (get_leader_node(n) = 0 \/ ForwardFails(n)))
        => submit_task_status(n) = 503

\* C17: a submission received by a node that is not leader changes none of
\* that node's collections: create_task runs on another node.
C17_ForwarderQueuesNothing ==
    [][\A t \in TaskIds, n \in Nodes :
          (accepted_by[t] = 0 /\ accepted_by'[t] # 0 /\ received_by'[t] = n
           /\ ~is_leader[n])
          => /\ JobCollections(n)' = JobCollections(n)
             /\ background'[n] = background[n]
             /\ accepted_by'[t] # n]_vars

\* C17 witness: a job posted to a follower waits in the leader's queue and
\* the follower holds nothing
C17_Witness ==
    \E t \in TaskIds :
        /\ Held(t)
        /\ received_by[t] # accepted_by[t]
        /\ status[received_by[t]] = "up"
        /\ ~is_leader[received_by[t]]
        /\ t \in SeqToSet(pending[accepted_by[t]])
        /\ JobCollections(received_by[t]) = <<<<>>, {}, {}, {}>>

\* C18: the node of a single-node cluster never sends an election message
\* or an announcement, is leader whenever no election runs, and keeps every
\* submitted job in pending: no sweep assigns and no step is dispatched.
C18_SingleNodeCluster ==
    \A n \in Nodes :
        all_nodes = {n}
        => /\ \A k \in Slots : ethreads[n][k].pc \in {"idle", "declare"}
           /\ ~election_in_progress[n] => is_leader[n] /\ leader_id[n] = n
           /\ sweep[n].pc = "idle"
           /\ in_progress[n] = {} /\ completed[n] = {} /\ failed[n] = {}
           /\ \A t \in TaskIds :
                 accepted_by[t] # 0
                 => /\ accepted_by[t] = n
                    /\ tasks[t].status = "pending"
                    /\ t \in SeqToSet(pending[n])
                    /\ AssignedSteps(t) = {}

\* C18 witness: the single node leads, its queued process_pending_tasks ran
\* and its own liveness entry has expired, and the job still waits
C18_Witness ==
    \E n \in Nodes, t \in TaskIds :
        /\ all_nodes = {n}
        /\ is_leader[n] /\ processing[n]
        /\ accepted_by[t] = n
        /\ background[n] = 0
        /\ alive_nodes[n] = {}
        /\ pending[n] = <<t>>

\* C19: every running node finds itself alive: is_node_alive(self) holds
\* and get_alive_nodes() contains the node itself.
C19_SelfAlwaysAlive ==
    \A n \in Nodes : Running(n) => is_node_alive(n, n)

\* C20: when the step function raised inside the worker, the leader sends
\* the job through the failure path: retry_count grows by one and the step
\* is not marked completed.
C20_WorkerErrorFailsStep ==
    [][\A n \in Nodes :
          (sweep[n].pc = "reply" /\ sweep[n].raised /\ sweep'[n].pc = "loop")
          => LET t == sweep[n].task
                 i == assigned_step(tasks[t])
             IN  /\ tasks'[t].retry_count = tasks[t].retry_count + 1
                 /\ tasks'[t].steps[i] # "completed"]_vars

C22_AssignedAtRecorded ==
    [][\A n \in Nodes :
          (sweep[n].pc = "loop" /\ sweep'[n].pc = "rpc")
          => LET t == sweep'[n].task
             IN  /\ t \in in_progress'[n]
                 /\ tasks'[t].assigned_at # "absent"]_vars

C24_DeclareOnlyUnanswered ==
    [][\A n \in Nodes :
          /\ \A k \in Slots :
                LET t == ethreads[n][k]
                    u == ethreads'[n][k]
                IN  /\ (t.pc # "declare" /\ u.pc = "declare")
                       => \/ get_higher_nodes(n) = {} /\ t.pc = "idle"
                          \/ /\ get_higher_nodes(n) # {}
                             /\ t.pc = "send" /\ ~t.got
                             /\ \E h \in t.todo : t.todo = {h} /\ status[h] # "up"
                    /\ (t.pc = "send" /\ u.pc # "send" /\ Running(n)')
                       => (u.pc = "idle" <=> (t.got \/ status[Min(t.todo)] = "up"))
                    /\ (t.pc # "announce" /\ u.pc = "announce") => t.pc = "declare"
          /\ (status'[1] = "up" /\ status'[2] = "off" /\ status'[3] = "up")
             => /\ ~is_leader'[1]
                /\ leader_id'[1] \in {NoLeader, 3}
                /\ \A k \in Slots : ethreads'[1][k].pc \in {"idle", "send"}
                /\ ~election_in_progress'[3] => is_leader'[3] /\ leader_id'[3] = 3]_vars

\* C24 witness: with node 2 absent, the constructor election of node 1 is
\* over, answered by node 3, and node 1 did not declare; node 3 has not
\* announced yet
C24_Witness ==
    /\ status[1] = "up" /\ status[2] = "off" /\ status[3] = "up"
    /\ ~election_in_progress[1]
    /\ \A k \in Slots : ethreads[1][k].pc = "idle"
    /\ ~is_leader[1] /\ leader_id[1] = NoLeader
    /\ election_in_progress[3]

\* an election of node n ended without declaring, answered by a higher
\* node, and every higher node has crashed since: no announcement will come
AnsweredThenAbandoned(n) ==
    /\ Running(n)
    /\ ~election_in_progress[n]
    /\ RunningElections(n) = {}
    /\ ~is_leader[n]
    /\ get_higher_nodes(n) # {}
    /\ \A h \in get_higher_nodes(n) : ~Running(h)

\* C25: a node whose election was answered by a higher node that crashed
\* before announcing eventually has a new election started by its leader
\* watcher, also when it has never known a leader.
C25_WatcherRestartsElection ==
    \A n \in Nodes :
        AnsweredThenAbandoned(n) ~> (election_in_progress[n] \/ ~Running(n))

\* the leader watcher of node n starts an election in this step: the flag
\* is raised and no election thread of another node delivered a message
WatcherStarts(n) ==
    /\ ~election_in_progress[n]
    /\ election_in_progress'[n]
    /\ \A m \in Nodes \ {n} : ethreads'[m] = ethreads[m]

\* C26: the leader watcher starts an election only when a leader is set, is
\* not the node itself and is not alive in the node's table; a node whose
\* leader_id is its own id is never made to start an election by it.
C26_WatcherSparesOwnLeadership ==
    [][\A n \in Nodes :
          WatcherStarts(n)
          => /\ leader_id[n] # NoLeader
             /\ leader_id[n] # n
             /\ ~is_node_alive(n, leader_id[n])]_vars

\* thread k of node n delivers an election message to node h in this step
ElectionMessageDelivered(n, k, h) ==
    /\ ethreads[n][k].pc = "send"
    /\ h = Min(ethreads[n][k].todo)
    /\ status[h] = "up"
    /\ ethreads'[n][k] # ethreads[n][k]
    /\ Running(n)'

\* C27: a node that receives an election message carrying another election
\* id than its own answers the sender and then has an election of its own
\* running; every election message comes from a node with a lower id.
C27_ReceiverStartsElection ==
    [][\A n, h \in Nodes : \A k \in Slots :
          ElectionMessageDelivered(n, k, h)
          => /\ n < h
             /\ election_id[n] # election_id[h]
             /\ election_in_progress'[h]
             /\ \E j \in Slots : ethreads'[h][j].pc # "idle"
             /\ ethreads'[n][k].pc # "declare"]_vars

\* C27 witness: node 3, which had finished its election and leads, runs a
\* new election after an election message of node 2
C27_Witness ==
    /\ is_leader[3] /\ leader_id[2] = 3
    /\ election_in_progress[3]
    /\ \E j \in Slots : ethreads[3][j].pc = "declare"
    /\ ~election_in_progress[2]
    /\ \A k \in Slots : ethreads[2][k].pc = "idle"
    /\ status[2] = "up"

\* the table of TableNode and the clock agree as C28 states, in a state
LivenessReadsAgree ==
    /\ \A p \in Nodes :
          is_node_alive_at(last_seen, p, now)
             <=> (p \in DOMAIN last_seen /\ now - last_seen[p] <= leader_timeout)
    /\ get_alive_nodes(last_seen, now)
          = {p \in Nodes : is_node_alive_at(last_seen, p, now)}
    /\ \A p \in DOMAIN remove_dead_nodes(last_seen, now) :
          now - remove_dead_nodes(last_seen, now)[p] <= leader_timeout
    /\ alive_nodes[TableNode] = get_alive_nodes(last_seen, now)

\* C28: at every clock value is_node_alive(p) holds exactly when p has an
\* entry not older than leader_timeout (the timeout itself included),
\* get_alive_nodes() returns exactly the peers is_node_alive holds for, and
\* after get_alive_nodes() the table has no entry older than leader_timeout.
C28_LivenessReadsAgree ==
    [][/\ LivenessReadsAgree'
       /\ (now' = now /\ DOMAIN last_seen' # DOMAIN last_seen
           /\ DOMAIN last_seen' \subseteq DOMAIN last_seen)
          => /\ DOMAIN last_seen'
                   = {p \in Nodes : is_node_alive_at(last_seen, p, now)}
             /\ \A p \in DOMAIN last_seen' :
                   /\ last_seen'[p] = last_seen[p]
                   /\ now' - last_seen'[p] <= leader_timeout]_vars

\* C28 witness: after a read deleted the node's own stale entry, one peer's
\* entry is exactly leader_timeout old and still counts as alive
C28_Witness ==
    /\ DOMAIN last_seen = {2, 3}
    /\ now - last_seen[3] = leader_timeout
    /\ last_seen[2] = now
    /\ alive_nodes[TableNode] = {2, 3}

\* thread k of node n delivers its leader announcement to node o in this step
AnnouncementDelivered(n, k, o) ==
    /\ ethreads[n][k].pc = "announce"
    /\ o = Min(ethreads[n][k].todo)
    /\ status[o] = "up"
    /\ ethreads'[n][k] # ethreads[n][k]
    /\ Running(n)'

\* C29: an inbound message refreshes the liveness entry of its peer: right
\* after a node has accepted a leader announcement naming l it finds l
\* alive, so its watcher has no cause to start an election against l.
C29_MessageRefreshesSender ==
    [][\A n, m \in Nodes : \A k \in Slots :
          AnnouncementDelivered(n, k, m)
          => /\ leader_id'[m] = n
             /\ is_node_alive(m, n)']_vars

\* C30: every job in pending has status pending, no assigned step and a
\* pending step as its first step that is not completed; every job in
\* in_progress has status in_progress and exactly one assigned step; no job
\* whose last step is completed is in pending or in in_progress.
C30_StepAndQueueMoveTogether ==
    \A n \in Nodes :
        /\ \A t \in SeqToSet(pending[n]) :
              /\ tasks[t].status = "pending"
              /\ AssignedSteps(t) = {}
              /\ CompletedSteps(t) # Steps
              /\ tasks[t].steps[Min(Steps \ CompletedSteps(t))] = "pending"
        /\ \A t \in in_progress[n] :
              /\ tasks[t].status = "in_progress"
              /\ Cardinality(AssignedSteps(t)) = 1
        /\ \A t \in SeqToSet(pending[n]) \cup in_progress[n] :
              tasks[t].steps[NumSteps] # "completed"
        /\ sweep[n].pc = "idle" => in_progress[n] = {}

\* C30 witness: the lock is free and a job that completed two steps and
\* failed a dispatch waits in pending for its last step
C30_Witness ==
    \E n \in Nodes, t \in TaskIds :
        /\ sweep[n].pc = "idle"
        /\ pending[n] = <<t>>
        /\ tasks[t].steps = <<"completed", "completed", "pending">>
        /\ tasks[t].retry_count >= 1
        /\ completed[n] = {} /\ failed[n] = {}

\* C31: in every state the job's assigned_to is set exactly when one of its
\* steps has status assigned; it is cleared on jobs in pending, completed
\* and failed.
C31_AssignedToFollowsSteps ==
    \A t \in TaskIds :
        Held(t) => (tasks[t].assigned_to # 0 <=> AssignedSteps(t) # {})

\* C33: once shutdown_event has run on a node, its periodic loops have
\* stopped: the scheduler loop, whose test of its running flag opens every
\* iteration, enters _assign_tasks no more, so no sweep of the loop starts
\* on a node that is shutting down.
C33_LoopsStopAfterShutdown ==
    [][\A n \in Nodes :
          ~(/\ status[n] = "stopping"
            /\ sweep[n].pc = "idle"
            /\ sweep'[n].pc = "loop"
            /\ sweep'[n].by = "loop")]_vars

\* C32: whenever a node that is not leader becomes leader by declare_leader
\* its pending, in_progress, completed and failed collections are empty,
\* also when it led before and was demoted by an announcement.
C32_NewLeaderStartsEmpty ==
    [][\A n \in Nodes : \A k \in Slots :
          (/\ ethreads[n][k].pc = "declare"
           /\ ethreads'[n][k].pc # "declare"
           /\ ~is_leader[n] /\ is_leader'[n])
          => JobCollections(n) = <<<<>>, {}, {}, {}>>]_vars

\* C34: there are never two serving non-leaders each of which names the
\* other as its leader, so a forwarded submission is never forwarded back.
C34_NoCrossedLeaders ==
    ~\E a, b \in Nodes :
        /\ a # b
        /\ status[a] = "up" /\ status[b] = "up"
        /\ ~is_leader[a] /\ ~is_leader[b]
        /\ leader_id[a] = b /\ leader_id[b] = a

\* C35: a node whose leader_id names a higher-id node that is serving does
\* not call declare_leader, in particular not on waking from the sleep of
\* election_timeout during which the announcement arrived.
C35_NoDeclareUnderHigherLeader ==
    [][\A n \in Nodes : \A k \in Slots :
          (/\ ethreads[n][k].pc = "declare"
           /\ ethreads'[n][k].pc # "declare"
           /\ is_leader'[n])
          => ~(leader_id[n] > n /\ status[leader_id[n]] = "up")]_vars

\* C36: every election that was started terminates: whenever
\* election_in_progress is true on a node, later the worker has finished and
\* the flag is false again (or the process is gone), so that a later
\* start_election is not blocked for ever.
C36_ElectionTerminates ==
    \A n \in Nodes :
        (ProcessExists(n) /\ election_in_progress[n])
            ~> (~election_in_progress[n] /\ RunningElections(n) = {})

\* an election was started on a serving node and its worker has finished
C36_Witness ==
    \E n \in Nodes :
        /\ status[n] = "up"
        /\ election_id[n] # 0
        /\ ~election_in_progress[n]
        /\ RunningElections(n) = {}
        /\ leader_id[n] # NoLeader

====
